---- MODULE Spec2Model ----
(***************************************************************************)
(* Model of the FCM/MCS push receiver client (package client) and of the   *)
(* goroutines it runs: the caller of Connect(), callers of Close(), the    *)
(* read loop listen() with its deferred retry(), the heartbeat loop and    *)
(* the consumer of Events().  c.mu is a non-reentrant sync.RWMutex.        *)
(***************************************************************************)
EXTENDS Integers, Sequences, FiniteSets, TLC

\* ---------------------------------------------------------------- bounds
MaxConns == 2        \* connections the network lets the client dial
MaxFrames == 3       \* frames the server sends over the whole run
MaxRetries == 2      \* cap on retryCount increments
EventChanCap == 1    \* buffer of eventChan, scaled down from 100
MaxBackoff == 17     \* sleeps of retry() followed in BackoffSpec
MaxMsgs == 2         \* frames on the stream given to a Parser in ParserSpec

\* ------------------------------------------------------ program constants
maxRetryTimeout == 15
MCSVersion == 41
HeartbeatPingTag == 0
HeartbeatAckTag == 1
LoginRequestTag == 2
LoginResponseTag == 3
CloseTag == 4
IqStanzaTag == 7
DataMessageStanzaTag == 8
StreamErrorStanzaTag == 10
NumProtoTypes == 16
MCSVersionTagAndSize == 0
MCSTagAndSize == 1
MCSSize == 2
MCSProtoBytes == 3
SizePacketLenMax == 5
LegacyVersion == 38

\* ------------------------------------------------------------- processes
Main == <<"main", "m">>
Hb == <<"hb", "h">>
NoProc == <<"none", "n">>
Workers == {<<"worker", "a">>, <<"worker", "b">>, <<"worker", "c">>}
Closers == {<<"closer", "a">>, <<"closer", "b">>}
Procs == {Main, Hb} \cup Workers \cup Closers

\* persistent IDs the server uses, identifiers given to NewClient
PIDs == {"p1"}

\* app_data lists of a DataMessageStanza, each entry a <<key, value>> pair
AppDatas ==
  {<<>>, <<<<"crypto-key", "a">>>>, <<<<"k", "1">>, <<"k", "2">>>>}
AndroidIDs == {"1", "x", "-1"}
SecurityTokens == {"2", "x"}

VARIABLES
  androidID,      \* Client.androidID
  securityToken,  \* Client.securityToken
  persistentIDs,  \* Client.persistentIDs
  retryCount,     \* Client.retryCount
  conn,           \* Client.conn: 0 is nil, else a connection id
  parser,         \* Client.parser: id of the connection it reads from
  closed,         \* Client.closed
  closeChan,      \* number of close(c.closeChan) executed
  eventChan,      \* Client.eventChan
  muWriter,       \* goroutine holding c.mu.Lock(), or NoProc
  pc,             \* position of every goroutine
  caller,         \* per goroutine: the function that called connect()
  cres,           \* per goroutine: the value connect() returned
  msg,            \* per goroutine: the message ReadMessage returned
  lconn,          \* per goroutine: the local variable conn
  sess,           \* per goroutine: connection its read loop was started for
  conns,          \* per connection: closes = Close() calls on it,
                  \* first = tag of the first frame written to it, logins =
                  \* LoginRequest writes, owed = HeartbeatPing frames
                  \* dispatched from it minus HeartbeatAck writes to it,
                  \* replay = ReceivedPersistentId of its LoginRequest,
                  \* established = its LoginResponse has been dispatched
  nConns,         \* connections dialled successfully
  dials,          \* dial attempts
  nFrames,        \* frames the server has sent
  connectResult,  \* what Connect() returned: "none", "ok", "err"
  sleeps,         \* seconds slept by retry(), in order
  emitted,        \* per persistent ID: Data/Notification events enqueued
  evCount,        \* per connection: Connect and Disconnect events enqueued,
                  \* and sendEvent calls made with a Disconnect
  last,           \* the latest sendEvent call, ok = it was enqueued
  flip,           \* changes at every sendEvent call
  attempts,       \* retry() calls that counted since the last LoginResponse
  reader,         \* Parser.reader: the bytes not yet read
  state,          \* Parser.state
  messageTag,     \* Parser.messageTag
  messageSize,    \* Parser.messageSize
  handshakeComplete, \* Parser.handshakeComplete
  results,        \* what the ReadMessage calls returned, in order
  sent,           \* the frames the peer put on the stream, in order
  vin,            \* the value given to EncodeVarint
  vout            \* what readVarint returned for its bytes

creds == <<androidID, securityToken>>
fields == <<persistentIDs, retryCount>>
handle == <<conn, parser>>
shut == <<closed, closeChan>>
bus == <<eventChan, emitted, evCount, last, flip>>
locals == <<caller, cres, msg, lconn, sess>>
net == <<nConns, dials, nFrames>>
pvars == <<reader, state, messageTag, messageSize, handshakeComplete, results,
           sent>>
vvars == <<vin, vout>>
aux == <<attempts, pvars, vvars>>

vars == <<aux, creds, fields, handle, shut, bus, locals, net, muWriter, pc, conns,
          connectResult, sleeps>>

NoTag == 99
NoMsg == [tag |-> NoTag, pid |-> "", appData |-> <<>>]

\* a uint32 as its two 16-bit halves
U32(h, l) == [hi |-> h, lo |-> l]
Zero32 == U32(0, 0)
ToU32(n) == U32(n \div 65536, n % 65536)
NoVarint == [value |-> Zero32, bytesRead |-> 0, err |-> "none"]

\* ----------------------------------------------------------- pure helpers
\* a | b on 16-bit values
RECURSIVE Or16(_, _)
Or16(a, b) ==
  IF a = 0 THEN b
  ELSE IF b = 0 THEN a
  ELSE (IF a % 2 = 1 \/ b % 2 = 1 THEN 1 ELSE 0)
         + 2 * Or16(a \div 2, b \div 2)

\* a | b on uint32
Or32(a, b) == U32(Or16(a.hi, b.hi), Or16(a.lo, b.lo))

\* Shl32 without the shift
Shl32_NoShift(d, shift) == U32(0, d)

\* uint32(d) << shift for a 7-bit d: the bits above bit 31 are lost
Shl32(d, shift) ==
  IF shift >= 16
    THEN U32((d * 2 ^ (shift - 16)) % 65536, 0)
    ELSE U32((d * 2 ^ shift) \div 65536, (d * 2 ^ shift) % 65536)

\* x >> 7 on uint32
Shr7(x) == U32(x.hi \div 128, (x.lo \div 128) + (x.hi % 128) * 512)

\* EncodeVarint, lines 250-254 (binary.PutUvarint): seven bits a byte, the
\* low ones first, bit 7 set on every byte but the last
RECURSIVE EncodeVarint(_)
EncodeVarint(x) ==
  IF x.hi > 0 \/ x.lo >= 128
    THEN <<(x.lo % 128) + 128>> \o EncodeVarint(Shr7(x))
    ELSE <<x.lo>>

\* readVarintLoop going on for one byte more
RECURSIVE readVarintLoop_SixBytes(_, _, _, _)
readVarintLoop_SixBytes(r, value, shift, bytesRead) ==
  IF bytesRead >= SizePacketLenMax + 1
    THEN [value |-> Zero32, bytesRead |-> bytesRead, err |-> "varint too long"]
  ELSE IF r = <<>>
    THEN [value |-> Zero32, bytesRead |-> bytesRead, err |-> "EOF"]
  ELSE LET b == Head(r)
           v == Or32(value, Shl32(b % 128, shift))
       IN IF b < 128
            THEN [value |-> v, bytesRead |-> bytesRead + 1, err |-> "nil"]
            ELSE readVarintLoop_SixBytes(Tail(r), v, shift + 7, bytesRead + 1)

\* the loop of readVarint, lines 83-99, on the bytes r the reader holds
RECURSIVE readVarintLoop(_, _, _, _)
readVarintLoop(r, value, shift, bytesRead) ==
  IF bytesRead >= SizePacketLenMax
    THEN [value |-> Zero32, bytesRead |-> bytesRead, err |-> "varint too long"]
  ELSE IF r = <<>>
    THEN [value |-> Zero32, bytesRead |-> bytesRead, err |-> "EOF"]
  ELSE LET b == Head(r)
           v == Or32(value, Shl32(b % 128, shift))
       IN IF b < 128
            THEN [value |-> v, bytesRead |-> bytesRead + 1, err |-> "nil"]
            ELSE readVarintLoop(Tail(r), v, shift + 7, bytesRead + 1)

\* readVarint, lines 78-100
readVarint(r) == readVarintLoop(r, Zero32, 0, 0)

\* the bytes of r from position n + 1 on
Drop(r, n) == SubSeq(r, n + 1, Len(r))

\* strconv.ParseUint(s, 10, 64) succeeds
ParseUintOk(s) == s \in {"1", "2"}

\* strconv.ParseInt(s, 10, 64) succeeds
ParseIntOk(s) == s \in {"1", "2", "-1"}

\* CheckinRequestOk without the parsing of the identifiers
CheckinRequestOk_NoParse(aid, tok) == TRUE

\* getCheckinRequest returns no error
CheckinRequestOk(aid, tok) ==
  /\ (aid # "" => ParseIntOk(aid))
  /\ (tok # "" => ParseUintOk(tok))

\* buildLoginRequest returns no error
BuildLoginRequestOk(aid) == ParseUintOk(aid)

\* the tags of constants.go, lines 29-39, that unmarshalByTag and
\* createEmptyMessage have no case for
ReservedTags == {5, 6, 9} \cup (11..15)

\* tags unmarshalByTag / createEmptyMessage have a case for
KnownTags == {HeartbeatPingTag, HeartbeatAckTag, LoginRequestTag,
              LoginResponseTag, CloseTag, IqStanzaTag, DataMessageStanzaTag,
              StreamErrorStanzaTag}

\* frames the server can put on the wire
Frames ==
  {[tag |-> t, pid |-> "", appData |-> <<>>] :
      t \in (0..NumProtoTypes) \ {DataMessageStanzaTag}}
  \cup {[tag |-> DataMessageStanzaTag, pid |-> p, appData |-> a] :
          p \in PIDs, a \in AppDatas}

Contains(s, x) == \E i \in 1..Len(s) : s[i] = x

Min(a, b) == IF a < b THEN a ELSE b

\* RetryTimeout doubling the delay at every attempt
RetryTimeout_Exponential(rc) == Min(2 ^ (rc - 1), maxRetryTimeout)

\* retry, lines 1136-1139: the seconds to sleep when retryCount is rc
RetryTimeout(rc) == Min(rc, maxRetryTimeout)

Event(t, c, p, d) ==
  [type |-> t, conn |-> c, pid |-> p, data |-> d, appData |-> {}]

\* the Event of a data message: "appData" is the map built from the stanza
DataEvent(t, c, p, a) ==
  [type |-> t, conn |-> c, pid |-> p, data |-> "", appData |-> a]

DataTypes == {"DataReceived", "NotificationReceived"}

\* sendEvent on a channel without a capacity: the event is always enqueued
sendEvent_Unbounded(e) ==
  /\ eventChan' = Append(eventChan, e)
  /\ last' = [type |-> e.type, conn |-> e.conn, pid |-> e.pid,
              data |-> e.data, appData |-> e.appData, ok |-> TRUE]
  /\ flip' = ~flip
  /\ emitted' = IF e.type \in DataTypes
                  THEN [emitted EXCEPT ![e.pid] = @ + 1] ELSE emitted
  /\ evCount' = IF e.type = "Connect"
                  THEN [evCount EXCEPT ![e.conn].connects = @ + 1]
                  ELSE IF e.type = "Disconnect"
                    THEN [evCount EXCEPT ![e.conn].disconnects = @ + 1,
                                         ![e.conn].discCalls = @ + 1]
                    ELSE evCount

\* sendEvent: enqueue, or drop once the channel stayed full for a second
sendEvent(e) ==
  LET ok == Len(eventChan) < EventChanCap IN
  /\ eventChan' = IF ok THEN Append(eventChan, e) ELSE eventChan
  /\ last' = [type |-> e.type, conn |-> e.conn, pid |-> e.pid,
              data |-> e.data, appData |-> e.appData, ok |-> ok]
  /\ flip' = ~flip
  /\ emitted' = IF ok /\ e.type \in DataTypes
                  THEN [emitted EXCEPT ![e.pid] = @ + 1] ELSE emitted
  /\ evCount' = IF ok /\ e.type = "Connect"
                  THEN [evCount EXCEPT ![e.conn].connects = @ + 1]
                  ELSE IF e.type = "Disconnect"
                    THEN [evCount EXCEPT
                            ![e.conn].disconnects = IF ok THEN @ + 1 ELSE @,
                            ![e.conn].discCalls = @ + 1]
                    ELSE evCount

\* c.mu.Lock() can be granted (readers hold c.mu only within one step)
LockFree == muWriter = NoProc

\* c.mu.RLock() can be granted
RLockFree == muWriter = NoProc

ConnClosed(c) == c # 0 /\ conns[c].closes > 0

\* conn.Close() on connection c
CloseConn(c) == [conns EXCEPT ![c].closes = @ + 1]

\* conn.Write of a frame of the given tag on connection c
WriteConn(c, tag) ==
  [conns EXCEPT
     ![c].first = IF @ = NoTag THEN tag ELSE @,
     ![c].logins = IF tag = LoginRequestTag THEN @ + 1 ELSE @,
     ![c].owed = IF tag = HeartbeatAckTag THEN @ - 1 ELSE @]

\* ------------------------------------------------------------------- Init
\* no Parser is under test
ParserIdle ==
  /\ reader = <<>>
  /\ state = MCSVersionTagAndSize
  /\ messageTag = 0
  /\ messageSize = Zero32
  /\ handshakeComplete = FALSE
  /\ results = <<>>
  /\ sent = [version |-> MCSVersion, frames |-> <<>>, raw |-> <<>>]

\* no varint is under test
VarintIdle ==
  /\ vin = Zero32
  /\ vout = NoVarint

\* NewClient(aid, tok, pids), lines 734-755
ClientNew(aid, tok, pids) ==
  /\ androidID = aid
  /\ securityToken = tok
  /\ persistentIDs = pids
  /\ attempts = 0
  /\ retryCount = 0
  /\ conn = 0
  /\ parser = 0
  /\ closed = FALSE
  /\ closeChan = 0
  /\ eventChan = <<>>
  /\ muWriter = NoProc
  /\ pc = [p \in Procs |-> "idle"]
  /\ caller = [p \in Procs |-> "none"]
  /\ cres = [p \in Procs |-> "none"]
  /\ msg = [p \in Procs |-> NoMsg]
  /\ lconn = [p \in Procs |-> 0]
  /\ sess = [p \in Procs |-> 0]
  /\ conns = [c \in 1..MaxConns |->
                [closes |-> 0, first |-> NoTag, logins |-> 0, owed |-> 0,
                 replay |-> <<>>, established |-> FALSE]]
  /\ nConns = 0
  /\ dials = 0
  /\ nFrames = 0
  /\ connectResult = "none"
  /\ sleeps = <<>>
  /\ emitted = [p \in PIDs |-> 0]
  /\ evCount = [c \in 1..MaxConns |->
                  [connects |-> 0, disconnects |-> 0, discCalls |-> 0]]
  /\ last = [type |-> "none", conn |-> 0, pid |-> "", data |-> "",
             appData |-> {}, ok |-> FALSE]
  /\ flip = FALSE

\* a client as NewClient returns it
Init ==
  /\ \E aid \in AndroidIDs, tok \in SecurityTokens,
        pids \in {<<>>, <<"p1">>} : ClientNew(aid, tok, pids)
  /\ ParserIdle
  /\ VarintIdle

\* ------------------------------------------------- Connect() and connect()
\* Connect, lines 763-771: gcm.CheckIn; the HTTP request may fail
ConnectCheckIn ==
  /\ pc[Main] = "idle"
  /\ \E httpOk \in BOOLEAN :
       IF httpOk /\ CheckinRequestOk(androidID, securityToken)
         THEN /\ pc' = [pc EXCEPT ![Main] = "c_lock"]
              /\ caller' = [caller EXCEPT ![Main] = "Connect"]
              /\ UNCHANGED connectResult
         ELSE /\ pc' = [pc EXCEPT ![Main] = "done"]
              /\ connectResult' = "err"
              /\ UNCHANGED caller
  /\ UNCHANGED <<aux, creds, fields, handle, shut, bus, cres, msg, lconn, sess,
                 net, muWriter, conns, sleeps>>

\* connect, line 809: c.mu.Lock()
ConnectLock(g) ==
  /\ pc[g] = "c_lock"
  /\ LockFree
  /\ muWriter' = g
  /\ pc' = [pc EXCEPT ![g] = "c_dial"]
  /\ UNCHANGED <<aux, creds, fields, handle, shut, bus, locals, net, conns,
                 connectResult, sleeps>>

\* connect, lines 826-833: dial; on success c.conn and c.parser are replaced
ConnectDial(g) ==
  /\ pc[g] = "c_dial"
  /\ dials' = dials + 1
  /\ \E dialOk \in BOOLEAN :
       IF dialOk /\ nConns < MaxConns
         THEN /\ nConns' = nConns + 1
              /\ conn' = nConns + 1
              /\ parser' = nConns + 1
              /\ pc' = [pc EXCEPT ![g] = "c_login"]
              /\ UNCHANGED <<muWriter, cres>>
         ELSE /\ muWriter' = NoProc
              /\ cres' = [cres EXCEPT ![g] = "err"]
              /\ pc' = [pc EXCEPT ![g] = "c_ret"]
              /\ UNCHANGED <<nConns, conn, parser>>
  /\ UNCHANGED <<aux, creds, fields, shut, bus, caller, msg, lconn, sess, nFrames,
                 conns, connectResult, sleeps>>

\* ConnectLogin returning nil without writing the LoginRequest
ConnectLogin_NoWrite(g) ==
  /\ pc[g] = "c_login"
  /\ IF BuildLoginRequestOk(androidID)
       THEN /\ cres' = [cres EXCEPT ![g] = "ok"]
            /\ UNCHANGED conns
       ELSE /\ conns' = CloseConn(conn)
            /\ cres' = [cres EXCEPT ![g] = "err"]
  /\ muWriter' = NoProc
  /\ pc' = [pc EXCEPT ![g] = "c_ret"]
  /\ UNCHANGED <<aux, creds, fields, handle, shut, bus, caller, msg, lconn,
                 sess, net, connectResult, sleeps>>

\* ConnectLogin returning its error without closing the connection
ConnectLogin_LeavesOpen(g) ==
  /\ pc[g] = "c_login"
  /\ \E writeOk \in BOOLEAN :
       IF BuildLoginRequestOk(androidID) /\ writeOk
         THEN /\ conns' = [WriteConn(conn, LoginRequestTag)
                             EXCEPT ![conn].replay = persistentIDs]
              /\ cres' = [cres EXCEPT ![g] = "ok"]
         ELSE /\ UNCHANGED conns
              /\ cres' = [cres EXCEPT ![g] = "err"]
  /\ muWriter' = NoProc
  /\ pc' = [pc EXCEPT ![g] = "c_ret"]
  /\ UNCHANGED <<aux, creds, fields, handle, shut, bus, caller, msg, lconn,
                 sess, net, connectResult, sleeps>>

\* ConnectLogin with a LoginRequest that carries no persistent IDs
ConnectLogin_NoReplay(g) ==
  /\ pc[g] = "c_login"
  /\ \E writeOk \in BOOLEAN :
       IF BuildLoginRequestOk(androidID) /\ writeOk
         THEN /\ conns' = WriteConn(conn, LoginRequestTag)
              /\ cres' = [cres EXCEPT ![g] = "ok"]
         ELSE /\ conns' = CloseConn(conn)
              /\ cres' = [cres EXCEPT ![g] = "err"]
  /\ muWriter' = NoProc
  /\ pc' = [pc EXCEPT ![g] = "c_ret"]
  /\ UNCHANGED <<aux, creds, fields, handle, shut, bus, caller, msg, lconn,
                 sess, net, connectResult, sleeps>>

\* connect, lines 836-849: build the LoginRequest with the whole of
\* c.persistentIDs (line 881) and write it, unlock, return
ConnectLogin(g) ==
  /\ pc[g] = "c_login"
  /\ \E writeOk \in BOOLEAN :
       IF BuildLoginRequestOk(androidID) /\ writeOk
         THEN /\ conns' = [WriteConn(conn, LoginRequestTag)
                             EXCEPT ![conn].replay = persistentIDs]
              /\ cres' = [cres EXCEPT ![g] = "ok"]
         ELSE /\ conns' = CloseConn(conn)
              /\ cres' = [cres EXCEPT ![g] = "err"]
  /\ muWriter' = NoProc
  /\ pc' = [pc EXCEPT ![g] = "c_ret"]
  /\ UNCHANGED <<aux, creds, fields, handle, shut, bus, caller, msg, lconn, sess,
                 net, connectResult, sleeps>>

FreeWorker == CHOOSE w \in Workers : pc[w] = "idle"

\* ConnectReturn with Connect() sending the Connect event itself, as soon as
\* connect() returned nil
ConnectReturn_EmitsConnect(g) ==
  /\ pc[g] = "c_ret"
  /\ \E w \in Workers : pc[w] = "idle"
  /\ IF caller[g] = "Connect"
       THEN /\ connectResult' = cres[g]
            /\ IF cres[g] = "ok"
                 THEN /\ pc' = [pc EXCEPT ![g] = "done",
                                          ![FreeWorker] = "l_select",
                                          ![Hb] = "hb_select"]
                      /\ sess' = [sess EXCEPT ![FreeWorker] = conn]
                      /\ sendEvent(Event("Connect", conn, "", ""))
                 ELSE /\ pc' = [pc EXCEPT ![g] = "done"]
                      /\ UNCHANGED <<sess, bus>>
            /\ UNCHANGED muWriter
       ELSE /\ muWriter' = NoProc
            /\ IF cres[g] = "ok"
                 THEN /\ pc' = [pc EXCEPT ![g] = "done",
                                          ![FreeWorker] = "l_select"]
                      /\ sess' = [sess EXCEPT ![FreeWorker] = conn]
                 ELSE /\ pc' = [pc EXCEPT ![g] = "done",
                                          ![FreeWorker] = "r_lock"]
                      /\ UNCHANGED sess
            /\ UNCHANGED <<connectResult, bus>>
  /\ UNCHANGED <<aux, creds, fields, handle, shut, caller, cres, msg, lconn,
                 net, conns, sleeps>>

\* the caller's code after connect() returned:
\*   Connect, lines 774-784: go c.listen(); go c.heartbeatLoop(); return nil
\*   retry, lines 1145-1151 and the deferred Unlock of line 1128:
\*     go c.listen() or go c.retry()
ConnectReturn(g) ==
  /\ pc[g] = "c_ret"
  /\ \E w \in Workers : pc[w] = "idle"
  /\ IF caller[g] = "Connect"
       THEN /\ connectResult' = cres[g]
            /\ IF cres[g] = "ok"
                 THEN /\ pc' = [pc EXCEPT ![g] = "done",
                                          ![FreeWorker] = "l_select",
                                          ![Hb] = "hb_select"]
                      /\ sess' = [sess EXCEPT ![FreeWorker] = conn]
                 ELSE /\ pc' = [pc EXCEPT ![g] = "done"]
                      /\ UNCHANGED sess
            /\ UNCHANGED muWriter
       ELSE /\ muWriter' = NoProc
            /\ IF cres[g] = "ok"
                 THEN /\ pc' = [pc EXCEPT ![g] = "done",
                                          ![FreeWorker] = "l_select"]
                      /\ sess' = [sess EXCEPT ![FreeWorker] = conn]
                 ELSE /\ pc' = [pc EXCEPT ![g] = "done",
                                          ![FreeWorker] = "r_lock"]
                      /\ UNCHANGED sess
            /\ UNCHANGED connectResult
  /\ UNCHANGED <<aux, creds, fields, handle, shut, bus, caller, cres, msg, lconn,
                 net, conns, sleeps>>

\* ------------------------------------------------------------- listen()
\* listen, lines 910-924: the non-blocking select on closeChan; if it is
\* open, conn := c.conn under RLock and the read deadline is set
ListenSelect(w) ==
  /\ pc[w] = "l_select"
  /\ IF closeChan > 0
       THEN /\ pc' = [pc EXCEPT ![w] = "l_defer"]
            /\ UNCHANGED lconn
       ELSE /\ RLockFree
            /\ lconn' = [lconn EXCEPT ![w] = conn]
            /\ pc' = [pc EXCEPT ![w] = "l_read"]
  /\ UNCHANGED <<aux, creds, fields, handle, shut, bus, caller, cres, msg, sess,
                 net, muWriter, conns, connectResult, sleeps>>

\* ListenReadError with the loop going on to its next iteration after the
\* Error event
ListenReadError_Continue(w) ==
  /\ pc[w] = "l_read"
  /\ \E why \in {"read", "timeout"} :
       /\ (why = "timeout" => ~ConnClosed(parser))
       /\ sendEvent(Event("Error", sess[w], "", why))
  /\ pc' = [pc EXCEPT ![w] = "l_select"]
  /\ UNCHANGED <<aux, creds, fields, handle, shut, locals, net, muWriter, conns,
                 connectResult, sleeps>>

\* listen, lines 926-937: ReadMessage fails on I/O (always so on a connection
\* closed locally) or on the read deadline; Error is sent and listen returns
ListenReadError(w) ==
  /\ pc[w] = "l_read"
  /\ \E why \in {"read", "timeout"} :
       /\ (why = "timeout" => ~ConnClosed(parser))
       /\ sendEvent(Event("Error", sess[w], "", why))
  /\ pc' = [pc EXCEPT ![w] = "l_defer"]
  /\ UNCHANGED <<aux, creds, fields, handle, shut, locals, net, muWriter, conns,
                 connectResult, sleeps>>

\* what ReadMessage makes of a frame: a Message for a tag unmarshalByTag and
\* createEmptyMessage know, the error "unknown message tag" otherwise
ParsesAsMessage(f) == f.tag \in KnownTags

\* listen, lines 926-941: ReadMessage consumes the next frame of the server
ListenReadFrame(w) ==
  /\ pc[w] = "l_read"
  /\ ~ConnClosed(parser)
  /\ nFrames < MaxFrames
  /\ nFrames' = nFrames + 1
  /\ \E f \in Frames :
       IF ParsesAsMessage(f)
         THEN /\ msg' = [msg EXCEPT ![w] = f]
              /\ pc' = [pc EXCEPT ![w] = "l_handle"]
              /\ UNCHANGED bus
         ELSE /\ sendEvent(Event("Error", sess[w], "", "parse"))
              /\ pc' = [pc EXCEPT ![w] = "l_defer"]
              /\ UNCHANGED msg
  /\ UNCHANGED <<aux, creds, fields, handle, shut, caller, cres, lconn, sess,
                 nConns, dials, muWriter, conns, connectResult, sleeps>>

\* handleMessage, lines 948-954: LoginResponse
HandleLoginResponse(w) ==
  /\ pc[w] = "l_handle"
  /\ msg[w].tag = LoginResponseTag
  /\ LockFree
  /\ persistentIDs' = <<>>
  /\ retryCount' = 0
  /\ attempts' = 0
  /\ sendEvent(Event("Connect", sess[w], "", ""))
  /\ conns' = [conns EXCEPT ![sess[w]].established = TRUE]
  /\ msg' = [msg EXCEPT ![w] = NoMsg]
  /\ pc' = [pc EXCEPT ![w] = "l_select"]
  /\ UNCHANGED <<pvars, vvars, creds, handle, shut, caller, cres, lconn, sess, net,
                 muWriter, connectResult, sleeps>>

\* HandleDataMessage with the stanza handed to a goroutine of its own, the
\* read loop going on at once
HandleDataMessage_Async(w) ==
  /\ pc[w] = "l_handle"
  /\ msg[w].tag = DataMessageStanzaTag
  /\ \E v \in Workers : pc[v] = "idle"
  /\ pc' = [pc EXCEPT ![w] = "l_select", ![FreeWorker] = "l_append"]
  /\ msg' = [msg EXCEPT ![w] = NoMsg, ![FreeWorker] = msg[w]]
  /\ sess' = [sess EXCEPT ![FreeWorker] = sess[w]]
  /\ UNCHANGED <<aux, creds, fields, handle, shut, bus, caller, cres, lconn,
                 net, muWriter, conns, connectResult, sleeps>>

\* HandleDataMessage sending the event of a duplicate once more
HandleDataMessage_DuplicateEvent(w) ==
  /\ pc[w] = "l_handle"
  /\ msg[w].tag = DataMessageStanzaTag
  /\ RLockFree
  /\ IF Contains(persistentIDs, msg[w].pid)
       THEN /\ pc' = [pc EXCEPT ![w] = "l_select"]
            /\ msg' = [msg EXCEPT ![w] = NoMsg]
            /\ sendEvent(DataEvent("DataReceived", sess[w], msg[w].pid, {}))
       ELSE /\ pc' = [pc EXCEPT ![w] = "l_append"]
            /\ UNCHANGED <<msg, bus>>
  /\ UNCHANGED <<aux, creds, fields, handle, shut, caller, cres, lconn, sess,
                 net, muWriter, conns, connectResult, sleeps>>

\* handleDataMessage, lines 984-996: the duplicate check under RLock
HandleDataMessage(w) ==
  /\ pc[w] = "l_handle"
  /\ msg[w].tag = DataMessageStanzaTag
  /\ RLockFree
  /\ IF Contains(persistentIDs, msg[w].pid)
       THEN /\ pc' = [pc EXCEPT ![w] = "l_select"]
            /\ msg' = [msg EXCEPT ![w] = NoMsg]
       ELSE /\ pc' = [pc EXCEPT ![w] = "l_append"]
            /\ UNCHANGED msg
  /\ UNCHANGED <<aux, creds, fields, handle, shut, bus, caller, cres, lconn, sess,
                 net, muWriter, conns, connectResult, sleeps>>

\* handleDataMessage, lines 1004-1007: the map built from the app_data list,
\* as the set of its <<key, value>> entries; a later entry with the same
\* key overwrites an earlier one
appDataMap(l) ==
  {l[i] : i \in {j \in 1..Len(l) :
                   \A k \in (j + 1)..Len(l) : l[k][1] # l[j][1]}}

hasCryptoKey(m) == \E e \in m : e[1] = "crypto-key"

\* DataEventType with the two event types exchanged
DataEventType_Swapped(m) ==
  IF hasCryptoKey(appDataMap(m.appData))
    THEN "DataReceived" ELSE "NotificationReceived"

\* the event type handleDataMessage chooses, lines 1010-1034
DataEventType(m) ==
  IF hasCryptoKey(appDataMap(m.appData))
    THEN "NotificationReceived" ELSE "DataReceived"

\* handleDataMessage, lines 998-1035: append under Lock, then emit
HandleDataAppend(w) ==
  /\ pc[w] = "l_append"
  /\ LockFree
  /\ persistentIDs' = Append(persistentIDs, msg[w].pid)
  /\ sendEvent(DataEvent(DataEventType(msg[w]), sess[w], msg[w].pid,
                         appDataMap(msg[w].appData)))
  /\ msg' = [msg EXCEPT ![w] = NoMsg]
  /\ pc' = [pc EXCEPT ![w] = "l_select"]
  /\ UNCHANGED <<aux, creds, retryCount, handle, shut, caller, cres, lconn, sess,
                 net, muWriter, conns, connectResult, sleeps>>

\* HandleHeartbeatPing without the call of sendHeartbeatAck
HandleHeartbeatPing_NoAck(w) ==
  /\ pc[w] = "l_handle"
  /\ msg[w].tag = HeartbeatPingTag
  /\ sendEvent(Event("HeartbeatPing", sess[w], "", ""))
  /\ conns' = [conns EXCEPT ![parser].owed = @ + 1]
  /\ msg' = [msg EXCEPT ![w] = NoMsg]
  /\ pc' = [pc EXCEPT ![w] = "l_select"]
  /\ UNCHANGED <<aux, creds, fields, handle, shut, caller, cres, lconn, sess, net,
                 muWriter, connectResult, sleeps>>

\* handleMessage, lines 962-965: HeartbeatPing, the event and the call of
\* sendHeartbeatAck
HandleHeartbeatPing(w) ==
  /\ pc[w] = "l_handle"
  /\ msg[w].tag = HeartbeatPingTag
  /\ sendEvent(Event("HeartbeatPing", sess[w], "", ""))
  /\ conns' = [conns EXCEPT ![parser].owed = @ + 1]
  /\ msg' = [msg EXCEPT ![w] = NoMsg]
  /\ pc' = [pc EXCEPT ![w] = "a_rlock"]
  /\ UNCHANGED <<aux, creds, fields, handle, shut, caller, cres, lconn, sess, net,
                 muWriter, connectResult, sleeps>>

\* sendHeartbeatAck, lines 1051-1053 and 1064-1066: conn := c.conn under RLock
AckRLock(w) ==
  /\ pc[w] = "a_rlock"
  /\ RLockFree
  /\ lconn' = [lconn EXCEPT ![w] = conn]
  /\ pc' = [pc EXCEPT ![w] = IF conn # 0 THEN "a_write" ELSE "l_select"]
  /\ UNCHANGED <<aux, creds, fields, handle, shut, bus, caller, cres, msg, sess,
                 net, muWriter, conns, connectResult, sleeps>>

\* sendHeartbeatAck, lines 1055-1063: the write and its event
AckWrite(w) ==
  /\ pc[w] = "a_write"
  /\ \E ok \in BOOLEAN :
       /\ (ConnClosed(lconn[w]) => ~ok)
       /\ conns' = WriteConn(lconn[w], HeartbeatAckTag)
       /\ sendEvent(Event(IF ok THEN "HeartbeatAck" ELSE "Error",
                          sess[w], "", IF ok THEN "" ELSE "ack"))
  /\ pc' = [pc EXCEPT ![w] = "l_select"]
  /\ UNCHANGED <<aux, creds, fields, handle, shut, locals, net, muWriter,
                 connectResult, sleeps>>

\* handleMessage, lines 970-972: Close
HandleClose(w) ==
  /\ pc[w] = "l_handle"
  /\ msg[w].tag = CloseTag
  /\ sendEvent(Event("Error", sess[w], "", "close"))
  /\ msg' = [msg EXCEPT ![w] = NoMsg]
  /\ pc' = [pc EXCEPT ![w] = "l_select"]
  /\ UNCHANGED <<aux, creds, fields, handle, shut, caller, cres, lconn, sess, net,
                 muWriter, conns, connectResult, sleeps>>

\* handleMessage, lines 967-968 and 974-979: HeartbeatAck, IqStanza, default
HandleIgnored(w) ==
  /\ pc[w] = "l_handle"
  /\ msg[w].tag \notin {LoginResponseTag, DataMessageStanzaTag,
                        HeartbeatPingTag, CloseTag}
  /\ msg' = [msg EXCEPT ![w] = NoMsg]
  /\ pc' = [pc EXCEPT ![w] = "l_select"]
  /\ UNCHANGED <<aux, creds, fields, handle, shut, bus, caller, cres, lconn, sess,
                 net, muWriter, conns, connectResult, sleeps>>

\* ListenDefer without the deferred sendEvent
ListenDefer_NoDisconnect(w) ==
  /\ pc[w] = "l_defer"
  /\ pc' = [pc EXCEPT ![w] = "r_lock"]
  /\ UNCHANGED <<aux, creds, fields, handle, shut, bus, locals, net, muWriter,
                 conns, connectResult, sleeps>>

\* ListenDefer with a new listen goroutine started next to retry()
ListenDefer_Relisten(w) ==
  /\ pc[w] = "l_defer"
  /\ \E v \in Workers : pc[v] = "idle"
  /\ sendEvent(Event("Disconnect", sess[w], "", ""))
  /\ pc' = [pc EXCEPT ![w] = "r_lock", ![FreeWorker] = "l_select"]
  /\ sess' = [sess EXCEPT ![FreeWorker] = sess[w]]
  /\ UNCHANGED <<aux, creds, fields, handle, shut, caller, cres, msg, lconn,
                 net, muWriter, conns, connectResult, sleeps>>

\* listen, lines 902-906: the deferred Disconnect, then the call of retry
ListenDefer(w) ==
  /\ pc[w] = "l_defer"
  /\ sendEvent(Event("Disconnect", sess[w], "", ""))
  /\ pc' = [pc EXCEPT ![w] = "r_lock"]
  /\ UNCHANGED <<aux, creds, fields, handle, shut, locals, net, muWriter, conns,
                 connectResult, sleeps>>

\* --------------------------------------------------------------- retry()
\* RetryLock without the check of c.closed
RetryLock_NoClosedCheck(w) ==
  /\ pc[w] = "r_lock"
  /\ LockFree
  /\ retryCount < MaxRetries
  /\ muWriter' = w
  /\ retryCount' = retryCount + 1
  /\ attempts' = attempts + 1
  /\ pc' = [pc EXCEPT ![w] = "r_sleep"]
  /\ UNCHANGED <<pvars, vvars, creds, persistentIDs, handle, shut, bus, locals, net, conns,
                 connectResult, sleeps>>

\* retry, lines 1127-1139: Lock; return if closed; count the attempt
RetryLock(w) ==
  /\ pc[w] = "r_lock"
  /\ LockFree
  /\ IF closed
       THEN /\ pc' = [pc EXCEPT ![w] = "done"]
            /\ UNCHANGED <<muWriter, retryCount, attempts>>
       ELSE /\ retryCount < MaxRetries
            /\ muWriter' = w
            /\ retryCount' = retryCount + 1
            /\ attempts' = attempts + 1
            /\ pc' = [pc EXCEPT ![w] = "r_sleep"]
  /\ UNCHANGED <<pvars, vvars, creds, persistentIDs, handle, shut, bus, locals, net, conns,
                 connectResult, sleeps>>

\* retry, lines 1136-1145: sleep min(retryCount, 15) s holding c.mu, then
\* call connect()
RetrySleep(w) ==
  /\ pc[w] = "r_sleep"
  /\ sleeps' = Append(sleeps, RetryTimeout(retryCount))
  /\ caller' = [caller EXCEPT ![w] = "retry"]
  /\ pc' = [pc EXCEPT ![w] = "c_lock"]
  /\ UNCHANGED <<aux, creds, fields, handle, shut, bus, cres, msg, lconn, sess,
                 net, muWriter, conns, connectResult>>

\* --------------------------------------------------------------- Close()
\* a goroutine calls Close(): it is now waiting at c.mu.Lock(), line 789
CloseCall(k) ==
  /\ pc[k] = "idle"
  /\ pc' = [pc EXCEPT ![k] = "k_lock"]
  /\ UNCHANGED <<aux, creds, fields, handle, shut, bus, locals, net, muWriter,
                 conns, connectResult, sleeps>>

\* CloseBody without the check of c.closed (a second close of closeChan
\* panics, so the count stops at 2)
CloseBody_NoClosedCheck(k) ==
  /\ pc[k] = "k_lock"
  /\ LockFree
  /\ closeChan < 2
  /\ closed' = TRUE
  /\ closeChan' = closeChan + 1
  /\ conns' = IF conn # 0 THEN CloseConn(conn) ELSE conns
  /\ pc' = [pc EXCEPT ![k] = "idle"]
  /\ UNCHANGED <<aux, creds, fields, handle, bus, locals, net, muWriter,
                 connectResult, sleeps>>

\* Close, lines 789-805, from the granted Lock to the return
CloseBody(k) ==
  /\ pc[k] = "k_lock"
  /\ LockFree
  /\ IF closed
       THEN UNCHANGED <<closed, closeChan, conns>>
       ELSE /\ closed' = TRUE
            /\ closeChan' = closeChan + 1
            /\ conns' = IF conn # 0 THEN CloseConn(conn) ELSE conns
  /\ pc' = [pc EXCEPT ![k] = "idle"]
  /\ UNCHANGED <<aux, creds, fields, handle, bus, locals, net, muWriter,
                 connectResult, sleeps>>

\* -------------------------------------------------------- heartbeatLoop()
\* heartbeatLoop, lines 1077-1079: the closeChan case of the select
HbExit ==
  /\ pc[Hb] = "hb_select"
  /\ closeChan > 0
  /\ pc' = [pc EXCEPT ![Hb] = "done"]
  /\ UNCHANGED <<aux, creds, fields, handle, shut, bus, locals, net, muWriter,
                 conns, connectResult, sleeps>>

\* heartbeatLoop, lines 1080-1081, and sendHeartbeatPing, lines 1088-1094:
\* the ticker case of the select, then the checks under RLock
HbTick ==
  /\ pc[Hb] = "hb_select"
  /\ RLockFree
  /\ IF closed \/ conn = 0
       THEN UNCHANGED <<pc, lconn>>
       ELSE /\ lconn' = [lconn EXCEPT ![Hb] = conn]
            /\ pc' = [pc EXCEPT ![Hb] = "hb_write"]
  /\ UNCHANGED <<aux, creds, fields, handle, shut, bus, caller, cres, msg, sess,
                 net, muWriter, conns, connectResult, sleeps>>

\* HbWrite sending an Error event when the write fails
HbWrite_SendsError ==
  /\ pc[Hb] = "hb_write"
  /\ \E ok \in BOOLEAN :
       /\ (ConnClosed(lconn[Hb]) => ~ok)
       /\ conns' = WriteConn(lconn[Hb], HeartbeatPingTag)
       /\ IF ok THEN UNCHANGED bus
                ELSE sendEvent(Event("Error", lconn[Hb], "", "ping"))
  /\ pc' = [pc EXCEPT ![Hb] = "hb_select"]
  /\ UNCHANGED <<aux, creds, fields, handle, shut, locals, net, muWriter,
                 connectResult, sleeps>>

\* sendHeartbeatPing, lines 1108-1113: the write; a failure is only logged
HbWrite ==
  /\ pc[Hb] = "hb_write"
  /\ \E ok \in BOOLEAN :
       /\ (ConnClosed(lconn[Hb]) => ~ok)
       /\ conns' = WriteConn(lconn[Hb], HeartbeatPingTag)
  /\ pc' = [pc EXCEPT ![Hb] = "hb_select"]
  /\ UNCHANGED <<aux, creds, fields, handle, shut, bus, locals, net, muWriter,
                 connectResult, sleeps>>

\* ------------------------------------------------- the reader of Events()
Consume ==
  /\ eventChan # <<>>
  /\ eventChan' = Tail(eventChan)
  /\ UNCHANGED <<aux, creds, fields, handle, shut, emitted, evCount, last, flip,
                 locals, net, muWriter, pc, conns, connectResult, sleeps>>

\* ------------------------------------------------------------------ Next
Next ==
  \/ ConnectCheckIn
  \/ \E g \in Procs : ConnectLock(g)
  \/ \E g \in Procs : ConnectDial(g)
  \/ \E g \in Procs : ConnectLogin(g)
  \/ \E g \in Procs : ConnectReturn(g)
  \/ \E w \in Workers : ListenSelect(w)
  \/ \E w \in Workers : ListenReadError(w)
  \/ \E w \in Workers : ListenReadFrame(w)
  \/ \E w \in Workers : HandleLoginResponse(w)
  \/ \E w \in Workers : HandleDataMessage(w)
  \/ \E w \in Workers : HandleDataAppend(w)
  \/ \E w \in Workers : HandleHeartbeatPing(w)
  \/ \E w \in Workers : AckRLock(w)
  \/ \E w \in Workers : AckWrite(w)
  \/ \E w \in Workers : HandleClose(w)
  \/ \E w \in Workers : HandleIgnored(w)
  \/ \E w \in Workers : ListenDefer(w)
  \/ \E w \in Workers : RetryLock(w)
  \/ \E w \in Workers : RetrySleep(w)
  \/ \E k \in Closers : CloseCall(k)
  \/ \E k \in Closers : CloseBody(k)
  \/ HbExit
  \/ HbTick
  \/ HbWrite
  \/ Consume

Spec == Init /\ [][Next]_vars

\* the steps of one goroutine of the client; the Go scheduler runs every
\* goroutine that can run, a read returns by its deadline at the latest, and
\* a sleep ends
GoStep(g) ==
  \/ ConnectLock(g) \/ ConnectDial(g) \/ ConnectLogin(g) \/ ConnectReturn(g)
  \/ ListenSelect(g) \/ ListenReadError(g) \/ ListenReadFrame(g)
  \/ HandleLoginResponse(g) \/ HandleDataMessage(g) \/ HandleDataAppend(g)
  \/ HandleHeartbeatPing(g) \/ AckRLock(g) \/ AckWrite(g) \/ HandleClose(g)
  \/ HandleIgnored(g) \/ ListenDefer(g) \/ RetryLock(g) \/ RetrySleep(g)
  \/ CloseBody(g)
  \/ (g = Hb /\ (HbExit \/ HbTick \/ HbWrite))

\* Spec under fair scheduling of the goroutines; calling Connect() or
\* Close() and reading Events() are left to the caller
FairSpec == Spec /\ \A g \in Procs : WF_vars(GoStep(g))

\* ------------------------------------------- the backoff arithmetic alone
\* retry()'s counter and delay, and the reset by a LoginResponse, applied in
\* any order to the client NewClient returns, without locks and connections
BackoffInit ==
  /\ ClientNew("1", "2", <<>>)
  /\ ParserIdle
  /\ VarintIdle

\* retry, lines 1135-1142: count the attempt, sleep min(retryCount, 15) s
BackoffRetry ==
  /\ Len(sleeps) < MaxBackoff
  /\ retryCount' = retryCount + 1
  /\ attempts' = attempts + 1
  /\ sleeps' = Append(sleeps, RetryTimeout(retryCount'))
  /\ UNCHANGED <<pvars, vvars, creds, persistentIDs, handle, shut, bus,
                 locals, net, muWriter, pc, conns, connectResult>>

\* handleMessage, lines 950-953: the LoginResponse case resets the counter
BackoffLoginResponse ==
  /\ persistentIDs' = <<>>
  /\ retryCount' = 0
  /\ attempts' = 0
  /\ UNCHANGED <<pvars, vvars, creds, handle, shut, bus, locals, net,
                 muWriter, pc, conns, connectResult, sleeps>>

BackoffNext ==
  \/ BackoffRetry
  \/ BackoffLoginResponse

BackoffSpec == BackoffInit /\ [][BackoffNext]_vars

\* ------------------------------------------------------ the Parser alone
\* first bytes of the streams tried: the two values onGotVersion compares
\* with, their neighbours, and both ends of the byte range
Versions == {MCSVersion, LegacyVersion, 0, 37, 39, 40, 42, 255}

\* a body of 130 bytes: 65 times field 1 as the varint 1
LongBody == [i \in 1..130 |-> IF i % 2 = 1 THEN 8 ELSE 1]

\* message bodies tried: none, a key without its value, the long one
Bodies == {<<>>, <<8>>, LongBody}

\* proto.Unmarshal accepts the body (line 218): a sequence of complete
\* varint fields with number 1
RECURSIVE ProtoValid(_)
ProtoValid(data) ==
  \/ data = <<>>
  \/ /\ Len(data) >= 2
     /\ data[1] = 8
     /\ data[2] < 128
     /\ ProtoValid(Drop(data, 2))

\* tags tried: those with a case in unmarshalByTag, reserved ones from both
\* ends of their range, and NumProtoTypes, which names no message
WireTags == KnownTags \cup {5, 6, 15, NumProtoTypes}

WireFrames == {[tag |-> t, body |-> b] : t \in WireTags, b \in Bodies}

\* a frame as the peer writes it: tag, varint of the size, body
FrameBytes(f) == <<f.tag>> \o EncodeVarint(ToU32(Len(f.body))) \o f.body

RECURSIVE StreamBytes(_)
StreamBytes(fs) ==
  IF fs = <<>> THEN <<>> ELSE FrameBytes(Head(fs)) \o StreamBytes(Tail(fs))

\* NewParser, lines 31-37, on a reader holding a version byte and frames
ParserInit ==
  /\ ClientNew("1", "2", <<>>)
  /\ VarintIdle
  /\ \E v \in Versions :
       \E fs \in UNION {[1..k -> WireFrames] : k \in 0..MaxMsgs} :
         /\ sent = [version |-> v, frames |-> fs, raw |-> <<>>]
         /\ reader = <<v>> \o StreamBytes(fs)
  /\ state = MCSVersionTagAndSize
  /\ messageTag = 0
  /\ messageSize = Zero32
  /\ handshakeComplete = FALSE
  /\ results = <<>>

\* what ReadMessage returns: a Message, or nil and an error
Result(tag, body, err) == [tag |-> tag, body |-> body, err |-> err]
Failure(err) == Result(NoTag, <<>>, err)

\* ReadMessage is called again as long as it has returned no error; inside
\* a call the handler of p.state runs, lines 40-65
Reading ==
  IF results = <<>> THEN TRUE ELSE results[Len(results)].err = "nil"

\* unmarshalByTag, lines 194-223: nil or the error
unmarshalByTag(tag, data) ==
  IF tag \notin KnownTags THEN "unknown message tag"
  ELSE IF ~ProtoValid(data) THEN "proto"
  ELSE "nil"

\* createEmptyMessage with an empty message for every tag
createEmptyMessage_AnyTag(tag) == "nil"

\* createEmptyMessage, lines 226-247: nil or the error
createEmptyMessage(tag) ==
  IF tag \notin KnownTags THEN "unknown message tag" ELSE "nil"

\* fmt.Errorf("...: %w", err) after the check err != nil, lines 163-165 and
\* 169-171: the error wrapped with its cause
Errorf(text, err) == IF err = "nil" THEN "nil" ELSE text \o ": " \o err

\* OnGotVersion without the comparison of the version byte
OnGotVersion_AcceptAny ==
  /\ Reading
  /\ state = MCSVersionTagAndSize
  /\ IF reader = <<>>
       THEN /\ results' = Append(results, Failure("failed to read version"))
            /\ UNCHANGED <<reader, state>>
       ELSE /\ reader' = Tail(reader)
            /\ state' = MCSTagAndSize
            /\ UNCHANGED results
  /\ UNCHANGED <<attempts, messageTag, messageSize, handshakeComplete, sent,
                 vvars, creds, fields, handle, shut, bus, locals, net,
                 muWriter, pc, conns, connectResult, sleeps>>

\* onGotVersion, lines 103-117
OnGotVersion ==
  /\ Reading
  /\ state = MCSVersionTagAndSize
  /\ IF reader = <<>>
       THEN /\ results' = Append(results, Failure("failed to read version"))
            /\ UNCHANGED <<reader, state>>
       ELSE /\ reader' = Tail(reader)
            /\ IF Head(reader) # MCSVersion /\ Head(reader) # LegacyVersion
                 THEN /\ results' =
                           Append(results, Failure("unexpected MCS version"))
                      /\ UNCHANGED state
                 ELSE /\ state' = MCSTagAndSize
                      /\ UNCHANGED results
  /\ UNCHANGED <<attempts, messageTag, messageSize, handshakeComplete, sent,
                 vvars, creds, fields, handle, shut, bus, locals, net,
                 muWriter, pc, conns, connectResult, sleeps>>

\* onGotMessageTag, lines 120-129
OnGotMessageTag ==
  /\ Reading
  /\ state = MCSTagAndSize
  /\ IF reader = <<>>
       THEN /\ results' =
                 Append(results, Failure("failed to read message tag"))
            /\ UNCHANGED <<reader, state, messageTag>>
       ELSE /\ reader' = Tail(reader)
            /\ messageTag' = Head(reader)
            /\ state' = MCSSize
            /\ UNCHANGED results
  /\ UNCHANGED <<attempts, messageSize, handshakeComplete, sent, vvars,
                 creds, fields, handle, shut, bus, locals, net, muWriter, pc,
                 conns, connectResult, sleeps>>

\* OnGotMessageSize going straight back to the tag state for size 0
OnGotMessageSize_SkipEmptyBody ==
  /\ Reading
  /\ state = MCSSize
  /\ LET r == readVarint(reader) IN
       /\ reader' = Drop(reader, r.bytesRead)
       /\ IF r.err # "nil"
            THEN /\ results' =
                      Append(results,
                             Failure(Errorf("failed to read message size",
                                            r.err)))
                 /\ UNCHANGED <<state, messageSize>>
            ELSE /\ messageSize' = r.value
                 /\ state' = IF r.value = Zero32
                               THEN MCSTagAndSize ELSE MCSProtoBytes
                 /\ results' = IF r.value = Zero32
                                 THEN Append(results,
                                             Result(messageTag, <<>>, "nil"))
                                 ELSE results
  /\ UNCHANGED <<attempts, messageTag, handshakeComplete, sent, vvars, creds,
                 fields, handle, shut, bus, locals, net, muWriter, pc, conns,
                 connectResult, sleeps>>

\* onGotMessageSize, lines 132-148
OnGotMessageSize ==
  /\ Reading
  /\ state = MCSSize
  /\ LET r == readVarint(reader) IN
       /\ reader' = Drop(reader, r.bytesRead)
       /\ IF r.err # "nil"
            THEN /\ results' =
                      Append(results,
                             Failure(Errorf("failed to read message size",
                                            r.err)))
                 /\ UNCHANGED <<state, messageSize>>
            ELSE /\ messageSize' = r.value
                 /\ state' = MCSProtoBytes
                 /\ UNCHANGED results
  /\ UNCHANGED <<attempts, messageTag, handshakeComplete, sent, vvars, creds,
                 fields, handle, shut, bus, locals, net, muWriter, pc, conns,
                 connectResult, sleeps>>

\* the reader holds the messageSize bytes of the body
HasBody == messageSize.hi = 0 /\ Len(reader) >= messageSize.lo

\* OnGotMessageBytes going back to the version state after a message
OnGotMessageBytes_ToVersionState ==
  /\ Reading
  /\ state = MCSProtoBytes
  /\ LET buf == IF messageSize # Zero32 /\ HasBody
                  THEN SubSeq(reader, 1, messageSize.lo) ELSE <<>>
         err == IF messageSize = Zero32
                  THEN Errorf("failed to create empty message",
                              createEmptyMessage(messageTag))
                ELSE IF ~HasBody THEN "failed to read message bytes"
                ELSE Errorf("failed to unmarshal message",
                            unmarshalByTag(messageTag, buf))
     IN
       /\ reader' = IF messageSize = Zero32 THEN reader
                    ELSE IF HasBody THEN Drop(reader, messageSize.lo)
                    ELSE <<>>
       /\ IF err = "nil"
            THEN /\ results' = Append(results, Result(messageTag, buf, "nil"))
                 /\ handshakeComplete' =
                      (handshakeComplete \/ messageTag = LoginResponseTag)
                 /\ messageTag' = 0
                 /\ messageSize' = Zero32
                 /\ state' = MCSVersionTagAndSize
            ELSE /\ results' = Append(results, Failure(err))
                 /\ UNCHANGED <<handshakeComplete, messageTag, messageSize,
                                state>>
  /\ UNCHANGED <<attempts, sent, vvars, creds, fields, handle, shut, bus,
                 locals, net, muWriter, pc, conns, connectResult, sleeps>>

\* onGotMessageBytes, lines 151-191
OnGotMessageBytes ==
  /\ Reading
  /\ state = MCSProtoBytes
  /\ LET buf == IF messageSize # Zero32 /\ HasBody
                  THEN SubSeq(reader, 1, messageSize.lo) ELSE <<>>
         err == IF messageSize = Zero32
                  THEN Errorf("failed to create empty message",
                              createEmptyMessage(messageTag))
                ELSE IF ~HasBody THEN "failed to read message bytes"
                ELSE Errorf("failed to unmarshal message",
                            unmarshalByTag(messageTag, buf))
     IN
       /\ reader' = IF messageSize = Zero32 THEN reader
                    ELSE IF HasBody THEN Drop(reader, messageSize.lo)
                    ELSE <<>>
       /\ IF err = "nil"
            THEN /\ results' = Append(results, Result(messageTag, buf, "nil"))
                 /\ handshakeComplete' =
                      (handshakeComplete \/ messageTag = LoginResponseTag)
                 /\ messageTag' = 0
                 /\ messageSize' = Zero32
                 /\ state' = MCSTagAndSize
            ELSE /\ results' = Append(results, Failure(err))
                 /\ UNCHANGED <<handshakeComplete, messageTag, messageSize,
                                state>>
  /\ UNCHANGED <<attempts, sent, vvars, creds, fields, handle, shut, bus,
                 locals, net, muWriter, pc, conns, connectResult, sleeps>>

ParserNext ==
  \/ OnGotVersion
  \/ OnGotMessageTag
  \/ OnGotMessageSize
  \/ OnGotMessageBytes

ParserSpec == ParserInit /\ [][ParserNext]_vars

\* ------------------------------------- the Parser on arbitrary size bytes
MaxRaw == 6

\* bytes tried after the tag: with and without the continuation bit, with
\* the low bits 0x0F and 0x10 that decide whether a fifth byte fits 32 bits
RawBytes == {0, 15, 16, 128, 255}

\* NewParser on a reader holding the version byte, the tag of a
\* DataMessageStanza and then up to MaxRaw arbitrary bytes
SizeInit ==
  /\ ClientNew("1", "2", <<>>)
  /\ VarintIdle
  /\ \E bs \in UNION {[1..k -> RawBytes] : k \in 0..MaxRaw} :
       /\ sent = [version |-> MCSVersion, frames |-> <<>>, raw |-> bs]
       /\ reader = <<MCSVersion, DataMessageStanzaTag>> \o bs
  /\ state = MCSVersionTagAndSize
  /\ messageTag = 0
  /\ messageSize = Zero32
  /\ handshakeComplete = FALSE
  /\ results = <<>>

SizeSpec == SizeInit /\ [][ParserNext]_vars

\* ------------------------------------------------- the varint codec alone
\* halves of the uint32 values tried: around the 7-bit group boundaries and
\* at both ends of the range
HiValues == {0, 1, 31, 32, 33, 4095, 4096, 65535}
LoValues == {0, 1, 127, 128, 129, 16383, 16384, 65535}
VarintInputs == {U32(h, l) : h \in HiValues, l \in LoValues}

\* bytes that follow the varint in the reader
TrailingBytes == <<255, 1>>

VarintInit ==
  /\ ClientNew("1", "2", <<>>)
  /\ ParserIdle
  /\ vin \in VarintInputs
  /\ vout = NoVarint

\* EncodeVarint(vin) is put in front of a reader and readVarint is called
VarintRoundTrip ==
  /\ vout.err = "none"
  /\ vout' = readVarint(EncodeVarint(vin) \o TrailingBytes)
  /\ UNCHANGED <<attempts, pvars, vin, creds, fields, handle, shut, bus,
                 locals, net, muWriter, pc, conns, connectResult, sleeps>>

VarintNext == VarintRoundTrip

VarintSpec == VarintInit /\ [][VarintNext]_vars

\* ------------------------------------------------------------ properties
Conns == 1..MaxConns

ListenPCs == {"l_select", "l_read", "l_handle", "l_append", "a_rlock",
              "a_write", "l_defer"}

\* the read loop started for connection c has returned (its deferred
\* function has sent Disconnect and called retry)
SessionEnded(c) ==
  \E w \in Workers : sess[w] = c /\ pc[w] \notin ListenPCs \cup {"idle"}

\* Close() has been called by some goroutine
CloseCalled == closed \/ \E k \in Closers : pc[k] = "k_lock"

\* C1: whenever the read loop ends on a read error and Close() is not
\* called, the client eventually makes a new connection attempt (a dial).
C1_Reconnects ==
  \A n \in 0..(MaxRetries + 1) :
    [](((\E w \in Workers : pc[w] = "l_defer") /\ last.type = "Error"
          /\ ~CloseCalled /\ dials = n)
        => <>(dials > n \/ CloseCalled))

\* C2: for every persistent ID at most one Data/Notification event is ever
\* enqueued on the event bus.
C2_AtMostOnePerID == \A p \in PIDs : emitted[p] <= 1

\* C3: at most one Connect event is enqueued per connection.
C3_ConnectOncePerSession == \A c \in Conns : evCount[c].connects <= 1

\* C4 as claimed: once the read loop of a session for which Connect was
\* enqueued has returned, exactly one Disconnect was enqueued for it.
C4_DisconnectExactlyOnce ==
  \A c \in Conns :
    (SessionEnded(c) /\ evCount[c].connects >= 1)
      => evCount[c].disconnects = 1

\* C4 as amended: sendEvent is called with Disconnect exactly once per
\* session, when its read loop returns and not before; that call enqueues
\* the event unless the bus is full, so at most one Disconnect is enqueued.
C4_DisconnectSentOnce ==
  [][\A c \in Conns :
       /\ evCount'[c].discCalls = IF SessionEnded(c)' THEN 1 ELSE 0
       /\ evCount'[c].disconnects <= 1
       /\ evCount'[c].disconnects - evCount[c].disconnects =
            IF evCount'[c].discCalls > evCount[c].discCalls
                 /\ Len(eventChan) < EventChanCap
              THEN 1 ELSE 0]_vars

\* a session for which Connect was enqueued has ended and its Disconnect
\* was dropped by the full bus
C4_Witness ==
  \E c \in Conns :
    /\ SessionEnded(c)
    /\ evCount[c].connects >= 1
    /\ evCount[c].discCalls = 1
    /\ evCount[c].disconnects = 0

\* C5: once the read loop of a session has returned and retry() is past its
\* check of c.closed (or has returned), the session's connection has been
\* closed exactly once.
C5_TransportClosedOnce ==
  \A w \in Workers :
    (sess[w] # 0 /\ pc[w] \notin ListenPCs \cup {"idle", "r_lock"})
      => conns[sess[w]].closes = 1

\* C6: every HeartbeatPing dispatched from a connection is answered by
\* exactly one HeartbeatAck write call on that connection before the read
\* loop reads the next frame: a write is owed only while sendHeartbeatAck
\* runs, and then exactly one.
C6_AckBeforeNextFrame ==
  \A c \in Conns :
    conns[c].owed =
      Cardinality({w \in Workers :
                     sess[w] = c /\ pc[w] \in {"a_rlock", "a_write"}})

\* a HeartbeatPing was dispatched and its HeartbeatAck written
C6_Witness ==
  \E w \in Workers :
    /\ pc[w] = "l_select"
    /\ last.type = "HeartbeatAck"
    /\ last.conn = sess[w]
    /\ conns[sess[w]].owed = 0

\* C7: once Close() has taken effect and a Disconnect has been sent, no
\* further sendEvent call is made.
C7_NothingAfterFinalDisconnect ==
  [][(closed /\ last.type = "Disconnect") => flip' = flip]_vars

\* Close() has taken effect, the final Disconnect is on the bus and the
\* read loop's goroutine has ended
C7_Witness ==
  /\ closed
  /\ last.type = "Disconnect"
  /\ last.ok
  /\ \E w \in Workers : sess[w] # 0 /\ pc[w] = "done"

\* C8: closeChan is closed at most once, exactly when closed is set; closed
\* never returns to false; a Close() that finds closed set changes nothing
\* of the client.
C8_CloseIdempotent ==
  [][/\ closeChan' <= 1
     /\ (closed' <=> closeChan' = 1)
     /\ (closed => closed')
     /\ \A k \in Closers :
          (closed /\ pc[k] = "k_lock" /\ pc'[k] = "idle")
            => UNCHANGED <<fields, handle, shut, bus, conns, muWriter>>]_vars

\* after a first Close() two goroutines are inside further Close() calls
C8_Witness ==
  /\ closed
  /\ \A k \in Closers : pc[k] = "k_lock"

\* C9: every Close() call eventually returns.
C9_CloseReturns ==
  \A k \in Closers : (pc[k] = "k_lock") ~> (pc[k] = "idle")

\* C10: once Close() has returned, retry() never goes past its check of
\* c.closed: it does not sleep, call connect(), dial, or start a read loop
\* or another retry().
C10_NoReconnectAfterClose ==
  [][closed =>
       \A w \in Workers :
         /\ (pc'[w] \in {"r_sleep", "c_lock", "c_dial", "c_login", "c_ret"}
               => pc'[w] = pc[w])
         /\ (pc[w] = "idle" /\ pc'[w] # "idle" => pc[Main] = "c_ret")]_vars

\* retry() ran after Close() and returned without a reconnect
C10_Witness ==
  /\ closed
  /\ dials = 1
  /\ \E w \in Workers : sess[w] # 0 /\ pc[w] = "done"

DispatchPCs == {"l_handle", "l_append", "a_rlock", "a_write"}

\* C12: the event queue never holds more than its capacity; a sendEvent call
\* on a full queue drops its event and the producer goes on; an event that is
\* accepted is appended once at the tail, and the queue changes otherwise
\* only by the reader taking its head.
C12_BoundedBusDropOnTimeout ==
  [][/\ Len(eventChan') <= EventChanCap
     /\ flip' # flip =>
          /\ last'.ok = (Len(eventChan) < EventChanCap)
          /\ eventChan' =
               IF last'.ok
                 THEN Append(eventChan,
                             [type |-> last'.type, conn |-> last'.conn,
                              pid |-> last'.pid, data |-> last'.data,
                              appData |-> last'.appData])
                 ELSE eventChan
          /\ \E g \in Procs : pc'[g] # pc[g]
     /\ flip' = flip =>
          \/ eventChan' = eventChan
          \/ eventChan # <<>> /\ eventChan' = Tail(eventChan)]_vars

\* an event was dropped on the full queue and the read loop is reading again
C12_Witness ==
  /\ last.type = "HeartbeatAck"
  /\ ~last.ok
  /\ Len(eventChan) = EventChanCap
  /\ \E w \in Workers : pc[w] = "l_read" /\ sess[w] = last.conn

C15_LoginRequestFirst ==
  \A c \in Conns :
    /\ conns[c].first \in {NoTag, LoginRequestTag}
    /\ conns[c].logins <= 1
    /\ (conns[c].first = LoginRequestTag <=> conns[c].logins = 1)

\* a HeartbeatAck was written to a connection after its LoginRequest
C15_Witness ==
  \E c \in Conns :
    /\ conns[c].first = LoginRequestTag
    /\ conns[c].logins = 1
    /\ last.type = "HeartbeatAck"
    /\ last.ok
    /\ last.conn = c

\* C16: a Connect event for a connection is sent only in the dispatch of a
\* LoginResponse read from that connection.
C16_ConnectAfterLoginResponse ==
  [][\A c \in Conns :
       (\/ evCount'[c].connects > evCount[c].connects
        \/ flip' # flip /\ last'.type = "Connect" /\ last'.conn = c)
         => \E w \in Workers :
              /\ sess[w] = c
              /\ parser = c
              /\ pc[w] = "l_handle"
              /\ msg[w].tag = LoginResponseTag]_vars

\* the first frame of a connection was a LoginResponse and its Connect is
\* on the bus
C16_Witness ==
  \E c \in Conns :
    /\ nFrames = 1
    /\ last.type = "Connect"
    /\ last.ok
    /\ last.conn = c
    /\ evCount[c].connects = 1

\* C18: readVarint on the bytes of EncodeVarint(x) returns x and no error
\* and has consumed exactly those bytes, 1 to 5 of them.
C18_VarintRoundTrip ==
  vout.err # "none" =>
    /\ vout.err = "nil"
    /\ vout.value = vin
    /\ vout.bytesRead = Len(EncodeVarint(vin))
    /\ vout.bytesRead =
         IF vin.hi >= 4096 THEN 5
         ELSE IF vin.hi >= 32 THEN 4
         ELSE IF vin.hi > 0 \/ vin.lo >= 16384 THEN 3
         ELSE IF vin.lo >= 128 THEN 2
         ELSE 1

\* 2^32 - 1 went through EncodeVarint and readVarint
C18_Witness ==
  /\ vin = U32(65535, 65535)
  /\ vout.err = "nil"
  /\ vout.bytesRead = 5

\* the first i frames of the stream have known tags and bodies that decode
WellFormedUpTo(i) ==
  \A j \in 1..i : /\ sent.frames[j].tag \in KnownTags
                  /\ ProtoValid(sent.frames[j].body)

C19_ReservedTagsParse ==
  \A i \in 1..Len(results) :
    (/\ i <= Len(sent.frames)
     /\ sent.version \in {MCSVersion, LegacyVersion}
     /\ \A j \in 1..i :
          /\ sent.frames[j].tag \in KnownTags \cup ReservedTags
          /\ ProtoValid(sent.frames[j].body))
      => results[i].err = "nil"

\* C20: while the Error of a Close frame is the latest event of the client,
\* no further frame is read and dispatched.
C20_CloseTerminates ==
  [][(last.type = "Error" /\ last.data = "close") => nFrames' = nFrames]_vars

\* positions between taking c.conn under RLock and the return of conn.Write
WritePCs == {"a_write", "hb_write"}

\* C21: the dispatch of a StreamErrorStanza sends an Error event and ends
\* the read loop.
C21_StreamErrorTerminates ==
  [][\A w \in Workers :
       (/\ pc[w] = "l_handle"
        /\ msg[w].tag = StreamErrorStanzaTag
        /\ pc'[w] # pc[w])
         => /\ flip' # flip
            /\ last'.type = "Error"
            /\ pc'[w] = "l_defer"]_vars

\* C22: a failed HeartbeatAck write ends the read loop.
C22_WriteFailureTerminates ==
  [][\A w \in Workers :
       (/\ pc[w] = "a_write"
        /\ flip' # flip
        /\ last'.type = "Error"
        /\ last'.data = "ack")
         => pc'[w] = "l_defer"]_vars

\* C23: at most one goroutine is between taking the connection handle and
\* the end of its write, and the handle it writes to has not been closed.
C23_WritesSerialised ==
  /\ Cardinality({g \in Procs : pc[g] \in WritePCs}) <= 1
  /\ \A g \in Procs : pc[g] \in WritePCs => ~ConnClosed(lconn[g])

\* the client was given an androidID or a securityToken that is no number
BadCredentials == ~ParseIntOk(androidID) \/ ~ParseUintOk(securityToken)

C25_ReplayList ==
  [][/\ \A c \in Conns :
          conns'[c].logins > conns[c].logins
            => conns'[c].replay = persistentIDs
     /\ \/ persistentIDs' = persistentIDs
        \/ \E w \in Workers :
             /\ pc[w] = "l_append"
             /\ pc'[w] # pc[w]
             /\ persistentIDs' = Append(persistentIDs, msg[w].pid)
        \/ \E w \in Workers :
             /\ pc[w] = "l_handle"
             /\ msg[w].tag = LoginResponseTag
             /\ pc'[w] # pc[w]
             /\ persistentIDs' = <<>>]_vars

\* a LoginRequest was written with the ID the client was created with, and
\* the list has since been cleared and has grown again
C25_Witness ==
  \E c \in Conns :
    /\ conns[c].logins = 1
    /\ conns[c].replay = <<"p1">>
    /\ evCount[c].connects = 1
    /\ persistentIDs = <<"p1">>

\* the keys of an app_data list, and the value of the last entry with key k
AppDataKeys(l) == {l[i][1] : i \in 1..Len(l)}

LastValue(l, k) ==
  l[CHOOSE i \in 1..Len(l) :
      /\ l[i][1] = k
      /\ \A j \in 1..Len(l) : l[j][1] = k => j <= i][2]

\* C26 (as amended): a DataMessageStanza whose persistentId is not in the
\* list passes the duplicate check without an event, and its handling then
\* makes one sendEvent call: type NotificationReceived if one of the keys of
\* its app_data is "crypto-key" and DataReceived otherwise, with the
\* persistentId of the stanza and with appData as the map from each key to
\* the value of its last entry; the event is enqueued unless the bus is full.
C26_Classification ==
  [][\A w \in Workers :
       /\ (/\ pc[w] = "l_handle"
           /\ msg[w].tag = DataMessageStanzaTag
           /\ pc'[w] # pc[w])
            => /\ flip' = flip
               /\ msg'[w] = IF Contains(persistentIDs, msg[w].pid)
                              THEN NoMsg ELSE msg[w]
               /\ pc'[w] = IF Contains(persistentIDs, msg[w].pid)
                             THEN "l_select" ELSE "l_append"
       /\ (pc[w] = "l_append" /\ pc'[w] # pc[w])
            => /\ flip' # flip
               /\ pc'[w] = "l_select"
               /\ last'.type = IF "crypto-key" \in AppDataKeys(msg[w].appData)
                                 THEN "NotificationReceived"
                                 ELSE "DataReceived"
               /\ last'.pid = msg[w].pid
               /\ last'.conn = sess[w]
               /\ last'.appData =
                    {<<k, LastValue(msg[w].appData, k)>> :
                       k \in AppDataKeys(msg[w].appData)}
               /\ last'.ok = (Len(eventChan) < EventChanCap)
               /\ emitted'[msg[w].pid] =
                    emitted[msg[w].pid] + (IF last'.ok THEN 1 ELSE 0)]_vars

\* a stanza with the key "crypto-key" was delivered as NotificationReceived
C26_Witness ==
  /\ last.type = "NotificationReceived"
  /\ last.ok
  /\ last.appData = {<<"crypto-key", "a">>}
  /\ Contains(persistentIDs, last.pid)

\* C26 as stated: the event of a non-duplicate stanza reaches the bus and
\* carries every entry of the stanza's app_data
C26_EventCarriesStanza ==
  [][\A w \in Workers :
       (pc[w] = "l_append" /\ pc'[w] # pc[w])
         => /\ last'.ok
            /\ last'.appData =
                 {msg[w].appData[i] : i \in 1..Len(msg[w].appData)}]_vars

ReadErrors == {"read", "timeout", "parse"}

\* C27: when ReadMessage returns an error the read loop calls sendEvent with
\* an Error and returns; its deferred function calls sendEvent with a
\* Disconnect, no other event coming in between; the goroutine never comes
\* back into the loop, and no read loop reads from that parser afterwards.
C27_ReadErrorEndsLoop ==
  [][\A w \in Workers :
       /\ (pc[w] = "l_read" /\ pc'[w] # pc[w] /\ pc'[w] # "l_handle")
            => /\ flip' # flip
               /\ last'.type = "Error"
               /\ last'.data \in ReadErrors
               /\ last'.conn = sess[w]
               /\ msg'[w] = NoMsg
               /\ pc'[w] = "l_defer"
       /\ pc[w] = "l_defer"
            => IF pc'[w] # pc[w]
                 THEN /\ flip' # flip
                      /\ last'.type = "Disconnect"
                      /\ last'.conn = sess[w]
                      /\ pc'[w] = "r_lock"
                 ELSE flip' = flip
       /\ pc[w] \notin ListenPCs \cup {"idle"}
            => /\ pc'[w] \notin ListenPCs
               /\ \A v \in Workers :
                    pc'[v] \in ListenPCs \ {"l_defer"} => parser' # sess[w]]_vars

\* a read timeout: the Error is on the bus, the Disconnect call has been
\* made after it and the goroutine is in retry()
C27_Witness ==
  /\ last.type = "Disconnect"
  /\ Len(eventChan) >= 1
  /\ eventChan[1].type = "Error"
  /\ eventChan[1].data = "timeout"
  /\ \E w \in Workers : pc[w] = "r_lock" /\ sess[w] = last.conn
  /\ evCount[last.conn].discCalls = 1

\* C28: a complete frame whose tag has no case in unmarshalByTag and
\* createEmptyMessage, after a good version byte and frames that parse, makes
\* ReadMessage return the unknown-tag error, for size 0 and for size > 0;
\* ReadMessage is not called again, and no Message ever has such a tag.
C28_UnknownTagError ==
  /\ \A i \in 1..Len(results) :
       results[i].err = "nil" => results[i].tag \in KnownTags
  /\ \A i \in 1..Len(sent.frames) :
       (/\ sent.version \in {MCSVersion, LegacyVersion}
        /\ WellFormedUpTo(i - 1)
        /\ sent.frames[i].tag \notin KnownTags)
         => /\ Len(results) <= i
            /\ Len(results) = i =>
                 /\ results[i].tag = NoTag
                 /\ results[i].err =
                      IF sent.frames[i].body = <<>>
                        THEN "failed to create empty message: unknown message tag"
                        ELSE "failed to unmarshal message: unknown message tag"
                 /\ ~Reading

\* after a message, a frame with tag 16 and a body has been refused
C28_Witness ==
  /\ Len(sent.frames) = 2
  /\ sent.frames[2].tag = NumProtoTypes
  /\ sent.frames[2].body = LongBody
  /\ Len(results) = 2
  /\ results[1].err = "nil"
  /\ results[2].err = "failed to unmarshal message: unknown message tag"

\* the state changes of one pass of the loop of ReadMessage
ParserCycle ==
  {<<MCSVersionTagAndSize, MCSTagAndSize>>, <<MCSTagAndSize, MCSSize>>,
   <<MCSSize, MCSProtoBytes>>, <<MCSProtoBytes, MCSTagAndSize>>}

\* C29: a Parser starts in the version state; its state changes only along
\* version -> tag -> size -> body -> tag, so it never comes back to the
\* version state; the step out of the version state consumes one byte, the
\* first of the stream, a tag byte is consumed only in the tag state, and in
\* the version state no tag has been read.
C29_StateCycle ==
  /\ state = MCSVersionTagAndSize
  /\ [][/\ state' # state => <<state, state'>> \in ParserCycle
        /\ (state = MCSVersionTagAndSize /\ state' # state)
             => /\ reader = <<sent.version>> \o StreamBytes(sent.frames)
                /\ reader' = StreamBytes(sent.frames)
        /\ state = MCSVersionTagAndSize
             => /\ messageTag' = 0
                /\ results = <<>>
                /\ Len(reader') >= Len(StreamBytes(sent.frames))
        /\ messageTag' # messageTag
             => \/ /\ state = MCSTagAndSize
                   /\ state' = MCSSize
                   /\ reader # <<>>
                   /\ messageTag' = Head(reader)
                   /\ reader' = Tail(reader)
                \/ /\ state = MCSProtoBytes
                   /\ state' = MCSTagAndSize
                   /\ messageTag' = 0]_vars

\* two messages were read after the version byte 38 and the parser is back
\* in the tag state
C29_Witness ==
  /\ sent.version = LegacyVersion
  /\ Len(results) = 2
  /\ results[1].err = "nil"
  /\ results[2].err = "nil"
  /\ results[2].tag # 0
  /\ state = MCSTagAndSize
  /\ messageTag = 0

\* C30: with 41 or 38 as the first byte the parser leaves the version state
\* once the byte is read and never reports a version error; with any other
\* first byte the first ReadMessage fails with the unexpected-version error,
\* the parser stays in the version state, and of the stream only the version
\* byte has been consumed: no tag byte is read.
C30_VersionCheck ==
  LET frames == StreamBytes(sent.frames) IN
  IF sent.version \in {41, 38}
    THEN /\ \A i \in 1..Len(results) :
              results[i].err # "unexpected MCS version"
         /\ (state = MCSVersionTagAndSize) = (reader = <<sent.version>> \o frames)
    ELSE /\ state = MCSVersionTagAndSize
         /\ messageTag = 0
         /\ IF results = <<>>
              THEN reader = <<sent.version>> \o frames
              ELSE /\ results = <<Failure("unexpected MCS version")>>
                   /\ reader = frames

\* the version byte 39 in front of a frame has been refused
C30_Witness ==
  /\ sent.version = 39
  /\ Len(sent.frames) >= 1
  /\ results = <<Failure("unexpected MCS version")>>
  /\ reader = StreamBytes(sent.frames)
  /\ state = MCSVersionTagAndSize

\* the first five size bytes all have the continuation bit
FiveContinued ==
  Len(sent.raw) >= SizePacketLenMax
    /\ \A i \in 1..SizePacketLenMax : sent.raw[i] >= 128

\* the size bytes consumed so far
SizeBytesRead == Len(sent.raw) - Len(reader)

\* C31: reading the size of the first frame never consumes more than five
\* bytes; when the first five bytes all carry the continuation bit,
\* ReadMessage fails with the error "varint too long" after exactly five of
\* them, a sixth byte stays unread, and no Message is returned; the first
\* ReadMessage fails with that error in no other case.
C31_VarintLengthLimit ==
  /\ (results = <<>> /\ state \in {MCSSize, MCSProtoBytes})
       => SizeBytesRead <= SizePacketLenMax
  /\ (/\ results # <<>>
      /\ results[1].err = "failed to read message size: varint too long")
       => FiveContinued
  /\ FiveContinued =>
       /\ state # MCSProtoBytes
       /\ \A i \in 1..Len(results) : results[i].err # "nil"
       /\ results # <<>> =>
            /\ results =
                 <<Failure("failed to read message size: varint too long")>>
            /\ reader = Drop(sent.raw, SizePacketLenMax)
            /\ state = MCSSize

\* the stream 08 FF FF FF FF FF FF after the version byte has been refused,
\* its last byte unread
C31_Witness ==
  /\ sent.raw = <<255, 255, 255, 255, 255, 255>>
  /\ results = <<Failure("failed to read message size: varint too long")>>
  /\ reader = <<255>>

\* the 7-bit digit of size byte i, 0 past the bytes consumed
SizeDigit(i) == IF i <= SizeBytesRead THEN sent.raw[i] % 128 ELSE 0

\* the base-128 value of the size bytes consumed: bits 0-27 from the first
\* four digits, the fifth digit giving bits 28-31 and, above them, the bits
\* that do not fit a uint32
SizeLow28 ==
  SizeDigit(1) + SizeDigit(2) * 2 ^ 7 + SizeDigit(3) * 2 ^ 14
    + SizeDigit(4) * 2 ^ 21

SizeMathValue ==
  [over |-> SizeDigit(5) \div 16,
   value |-> U32((SizeLow28 \div 65536) + (SizeDigit(5) % 16) * 4096,
                 SizeLow28 % 65536)]

\* C40: a size that readVarint returns for the first frame is the base-128
\* value of the bytes consumed for it, and that value fits in 32 bits.
C40_VarintExactValue ==
  (results = <<>> /\ state = MCSProtoBytes)
    => /\ SizeMathValue.over = 0
       /\ messageSize = SizeMathValue.value

\* C32: a HeartbeatPing write of sendHeartbeatPing that can succeed goes to a
\* connection whose LoginResponse has been dispatched and whose read loop
\* has not returned, and is made before Close().
C32_PingOnlyWhileEstablished ==
  [][(/\ pc[Hb] = "hb_write"
      /\ pc'[Hb] # "hb_write"
      /\ ~ConnClosed(lconn[Hb]))
       => /\ conns[lconn[Hb]].established
          /\ ~SessionEnded(lconn[Hb])
          /\ ~closed]_vars

\* C33: a HeartbeatAck or HeartbeatPing write on a connection that has been
\* closed, which fails, and a read that fails are each followed at once by
\* an Error event of the goroutine.
C33_NoSwallowedError ==
  [][\A g \in Procs :
       (\/ /\ pc[g] \in WritePCs
            /\ pc'[g] # pc[g]
            /\ ConnClosed(lconn[g])
        \/ /\ pc[g] = "l_read"
            /\ pc'[g] = "l_defer")
         => /\ flip' # flip
            /\ last'.type = "Error"]_vars

\* C34: a DataReceived, NotificationReceived or HeartbeatPing event is sent,
\* and a persistent ID is appended, only for a connection whose
\* LoginResponse has been dispatched.
C34_HandshakeGating ==
  [][/\ (flip' # flip /\ last'.type \in DataTypes \cup {"HeartbeatPing"})
          => conns[last'.conn].established
     /\ \A w \in Workers :
          (pc[w] = "l_append" /\ Len(persistentIDs') > Len(persistentIDs))
            => conns[sess[w]].established]_vars

\* positions at which a goroutine is about to call c.mu.Lock() or RLock()
LockRequestPCs == {"c_lock", "r_lock", "k_lock", "a_rlock", "l_append"}

\* C35: no goroutine requests c.mu while it holds it.
C35_NoSelfDeadlock ==
  \A g \in Procs : pc[g] \in LockRequestPCs => muWriter # g

\* positions inside retry() and inside the connect() it calls
RetryPCs == {"r_lock", "r_sleep", "c_lock", "c_dial", "c_login", "c_ret"}

Listeners == {w \in Workers : pc[w] \in ListenPCs}

Retriers == {w \in Workers : pc[w] \in RetryPCs}

\* C36: at most one goroutine is in listen(), at most one is in retry(), and
\* never one of each at once: retry() runs in the goroutine of the listen()
\* that returned; the goroutine in listen() reads from the parser of the
\* connection it was started for.
C36_SingleReader ==
  /\ Cardinality(Listeners \cup Retriers) <= 1
  /\ \A w \in Listeners : sess[w] = parser /\ sess[w] = conn

\* the read loop has returned and its goroutine is in the connect() of
\* retry(), no other goroutine reading
C36_Witness ==
  \E w \in Workers :
    /\ pc[w] = "c_lock"
    /\ caller[w] = "retry"
    /\ evCount[sess[w]].discCalls = 1
    /\ Listeners = {}
    /\ Retriers = {w}

\* C37: when handleDataMessage appends a persistent ID, the event of that
\* stanza is enqueued on the event bus.
C37_RecordedImpliesDelivered ==
  [][\A w \in Workers :
       (pc[w] = "l_append"
          /\ persistentIDs' = Append(persistentIDs, msg[w].pid))
         => /\ emitted'[msg[w].pid] = emitted[msg[w].pid] + 1
            /\ Len(eventChan') = Len(eventChan) + 1
            /\ eventChan'[Len(eventChan')].pid = msg[w].pid]_vars

\* C38: once Connect() has returned an error, no goroutine of the client has
\* been started, every connection that was dialled is closed, no sendEvent
\* call has been made, and retry() has not run.
C38_FailedConnectLeavesNothing ==
  connectResult = "err" =>
    /\ pc[Main] = "done"
    /\ pc[Hb] = "idle"
    /\ \A w \in Workers : pc[w] = "idle"
    /\ \A c \in 1..nConns : ConnClosed(c)
    /\ muWriter \notin {Main, Hb} \cup Workers
    /\ ~flip
    /\ last.type = "none"
    /\ eventChan = <<>>
    /\ retryCount = 0
    /\ sleeps = <<>>

\* Connect() has failed after a successful dial
C38_Witness ==
  /\ connectResult = "err"
  /\ dials = 1
  /\ nConns = 1
  /\ conns[1].closes = 1
  /\ conn = 1

\* C39: the dispatch of a DataMessageStanza whose persistentId is in
\* persistentIDs is one step back to the head of the read loop that leaves
\* persistentIDs, retryCount, closed, closeChan, c.conn, c.parser, the
\* event queue, the event counters and every connection as they were.
C39_DuplicateFrame ==
  [][\A w \in Workers :
       (/\ pc[w] = "l_handle"
        /\ msg[w].tag = DataMessageStanzaTag
        /\ Contains(persistentIDs, msg[w].pid)
        /\ pc'[w] # pc[w])
         => /\ pc'[w] = "l_select"
            /\ UNCHANGED <<persistentIDs, retryCount, closed, closeChan,
                           conn, parser, eventChan, emitted, evCount, last,
                           flip, conns, sleeps>>]_vars

\* a stanza that was delivered has been sent again and is at the duplicate
\* check
C39_Witness ==
  \E w \in Workers :
    /\ pc[w] = "l_handle"
    /\ msg[w].tag = DataMessageStanzaTag
    /\ Contains(persistentIDs, msg[w].pid)
    /\ emitted[msg[w].pid] = 1
    /\ nFrames = 2

====
